---- MODULE Spec2Model ----
(***************************************************************************)
(* Model of extract_records (src/app.py): the timesheet record extraction  *)
(* loop over pages, tables and rows, with the pattern library, the name    *)
(* resolver and the hours disambiguator.                                   *)
(*                                                                         *)
(* A Python str is modelled as a sequence of one-character strings, so     *)
(* that strip, split, lower, join, substring search and the regular        *)
(* expressions are computed character by character.                        *)
(***************************************************************************)
EXTENDS Integers, Sequences, FiniteSets, TLC

VARIABLES pc, inputs, rowsLeft, pageNo, tableNo, rowNo, text, name, table,
          hdr, records, origin

vars == <<pc, inputs, rowsLeft, pageNo, tableNo, rowNo, text, name, table,
          hdr, records, origin>>

----------------------------------------------------------------------------
(* Bounds of the explored documents.                                       *)

MaxPages == 2

MaxTables == 2

MaxRows == 4

MaxCells == 3

MaxLines == 3

----------------------------------------------------------------------------
(* Characters and str methods.                                             *)

\* Python's None; no str has this shape, every character is one long.
None == <<"None">>

WS == {" ", "\t", "\n"}

DIGITS == {"0", "1", "2", "3", "4", "5", "6", "7", "8", "9"}

UPPER == <<"A", "B", "C", "D", "E", "F", "G", "H", "I", "J", "K", "L", "M",
           "N", "O", "P", "Q", "R", "S", "T", "U", "V", "W", "X", "Y", "Z">>

LOWER == <<"a", "b", "c", "d", "e", "f", "g", "h", "i", "j", "k", "l", "m",
           "n", "o", "p", "q", "r", "s", "t", "u", "v", "w", "x", "y", "z">>

LETTERS == {UPPER[i] : i \in 1..26} \cup {LOWER[i] : i \in 1..26}

\* The lower-case letter of every upper-case letter.
LowerOf == [c \in {UPPER[i] : i \in 1..26} |-> LOWER[CHOOSE i \in 1..26 : UPPER[i] = c]]

LowerChar(c) == IF c \in DOMAIN LowerOf THEN LowerOf[c] ELSE c

\* str.lower()
Lower(s) == [i \in 1..Len(s) |-> LowerChar(s[i])]

\* str.strip(chars)
StripChars(s, chars) ==
    LET keep == {i \in 1..Len(s) : s[i] \notin chars}
    IN  IF keep = {} THEN <<>>
        ELSE SubSeq(s, CHOOSE i \in keep : \A j \in keep : i <= j,
                       CHOOSE i \in keep : \A j \in keep : i >= j)

\* str.strip()
Strip(s) == StripChars(s, WS)

\* sub in s
Contains(s, sub) ==
    \E i \in 1..(Len(s) - Len(sub) + 1) : \A j \in 1..Len(sub) : s[i + j - 1] = sub[j]

RECURSIVE Join(_, _)
\* sep.join(parts)
Join(parts, sep) ==
    IF parts = <<>> THEN <<>>
    ELSE IF Len(parts) = 1 THEN parts[1]
    ELSE parts[1] \o sep \o Join(Tail(parts), sep)

RECURSIVE SplitOn(_, _, _, _)
\* Pieces of s between characters of seps; cur is the piece being read.
\* keepEmpty tells whether empty pieces are kept (splitlines) or dropped
\* (split on runs of whitespace).
SplitOn(s, seps, cur, keepEmpty) ==
    IF s = <<>>
    THEN IF cur = <<>> THEN <<>> ELSE <<cur>>
    ELSE IF s[1] \in seps
         THEN (IF cur = <<>> /\ ~keepEmpty THEN <<>> ELSE <<cur>>)
              \o SplitOn(Tail(s), seps, <<>>, keepEmpty)
         ELSE SplitOn(Tail(s), seps, Append(cur, s[1]), keepEmpty)

\* str.split()
Split(s) == SplitOn(s, WS, <<>>, FALSE)

\* str.splitlines()
SplitLines(s) == SplitOn(s, {"\n"}, <<>>, TRUE)

\* Variant: the decimal comma is kept.
ReplaceComma_M(s) == s

\* str.replace(",", ".")
ReplaceComma(s) == [i \in 1..Len(s) |-> IF s[i] = "," THEN "." ELSE s[i]]

\* Truth value of an Optional[str]: None and "" are false.
Truthy(x) == x # None /\ x # <<>>

AllIn(s, from, to, chars) == \A i \in from..to : s[i] \in chars

\* "$" of re without MULTILINE: the end, or just before a final newline.
DollarAt(s, i) == i = Len(s) + 1 \/ (i = Len(s) /\ s[i] = "\n")

----------------------------------------------------------------------------
(* Constants and pattern library.                                          *)

WEEKLY_HEADER == <<"W", "e", "e", "k", "l", "y", " ", "E", "m", "p", "l", "o", "y", "e", "e", " ", "T", "i", "m", "e", "s", "h", "e", "e", "t">>

NAME_LABEL == <<"N", "a", "m", "e">>

FOOTER_MARK == <<"p", "r", "e", "p", "a", "r", "e", "d", " ", "b", "y">>

HDR_DATE == <<"d", "a", "t", "e">>

HDR_DAY == <<"d", "a", "y">>

HDR_TOTAL == <<"t", "o", "t", "a", "l", " ", "h", "o", "u", "r">>

ANNUAL_LEAVE == <<"A", "n", "n", "u", "a", "l", " ", "L", "e", "a", "v", "e">>

TAG_REGULAR == <<" ", "(", "R", "e", "g", "u", "l", "a", "r", ")">>

TAG_OT == <<" ", "(", "O", "T", ")">>

PARTS_SEP == <<" ", "|", " ">>

\* Variant: the pattern without its end anchor.
DATE_RE_M(s) ==
    \E a \in 1..2, w1 \in 1..Len(s), w2 \in 1..Len(s), d \in 2..4 :
        /\ a + w1 + 3 + w2 + d <= Len(s)
        /\ AllIn(s, 1, a, DIGITS)
        /\ AllIn(s, a + 1, a + w1, WS)
        /\ AllIn(s, a + w1 + 1, a + w1 + 3, LETTERS)
        /\ AllIn(s, a + w1 + 4, a + w1 + 3 + w2, WS)
        /\ AllIn(s, a + w1 + w2 + 4, a + w1 + w2 + 3 + d, DIGITS)

\* DATE_RE.match(s): ^\d{1,2}\s+[A-Za-z]{3}\s+\d{2,4}$
DATE_RE(s) ==
    \E a \in 1..2, w1 \in 1..Len(s), w2 \in 1..Len(s), d \in 2..4 :
        /\ a + w1 + 3 + w2 + d <= Len(s)
        /\ AllIn(s, 1, a, DIGITS)
        /\ AllIn(s, a + 1, a + w1, WS)
        /\ AllIn(s, a + w1 + 1, a + w1 + 3, LETTERS)
        /\ AllIn(s, a + w1 + 4, a + w1 + 3 + w2, WS)
        /\ AllIn(s, a + w1 + w2 + 4, a + w1 + w2 + 3 + d, DIGITS)
        /\ DollarAt(s, a + w1 + w2 + 4 + d)

\* TIME_RE.match(t): ^\d{1,2}[:.]\d{2}$
TIME_RE(t) ==
    \E a \in 1..2 :
        /\ a + 3 <= Len(t)
        /\ AllIn(t, 1, a, DIGITS)
        /\ t[a + 1] \in {":", "."}
        /\ AllIn(t, a + 2, a + 3, DIGITS)
        /\ DollarAt(t, a + 4)

\* Variant: the colon taken as a decimal separator too.
NUMBER_SEPS_M == {".", ",", ":"}

NUMBER_SEPS == {".", ","}

\* NUMBER_RE.match(t): ^\d+(?:[.,]\d+)?$
NUMBER_RE(t) ==
    \E a \in 1..Len(t) :
        /\ AllIn(t, 1, a, DIGITS)
        /\ \/ DollarAt(t, a + 1)
           \/ \E b \in 1..Len(t) :
                /\ a + 1 + b <= Len(t)
                /\ t[a + 1] \in NUMBER_SEPS
                /\ AllIn(t, a + 2, a + 1 + b, DIGITS)
                /\ DollarAt(t, a + 2 + b)

\* re.search(r"annual\s*leave", s, re.IGNORECASE)
LEAVE_RE(s) ==
    \E i \in 1..Len(s), w \in 0..Len(s) :
        /\ i + 10 + w <= Len(s)
        /\ Lower(SubSeq(s, i, i + 5)) = <<"a", "n", "n", "u", "a", "l">>
        /\ AllIn(s, i + 6, i + 5 + w, WS)
        /\ Lower(SubSeq(s, i + 6 + w, i + 10 + w)) = <<"l", "e", "a", "v", "e">>

----------------------------------------------------------------------------
(* Name extraction.                                                        *)

\* lines = [l.strip() for l in text.splitlines() if l.strip()]
Lines(t) ==
    LET raw == SplitLines(t)
    IN  SelectSeq([i \in 1..Len(raw) |-> Strip(raw[i])], LAMBDA l : l # <<>>)

\* Variant: name is not reset, the value of the page before is kept.
NameAtPageStart_M(prev) == prev

\* name = None, at the top of every page iteration; prev is the value the
\* variable holds from the page before.
NameAtPageStart(prev) == None

RECURSIVE LabelScan(_, _, _)
\* First loop over lines: the label line followed by a candidate longer
\* than 2. i is the 1-based position, cur the value of name so far.
LabelScan(lines, i, cur) ==
    IF i > Len(lines) THEN cur
    ELSE IF /\ Lower(lines[i]) = Lower(NAME_LABEL)
            /\ i + 1 <= Len(lines)
            /\ Len(Strip(lines[i + 1])) > 2
         THEN Strip(lines[i + 1])
         ELSE LabelScan(lines, i + 1, cur)

NAME_SEPS == {":"} \cup WS

\* Start positions at which r"Name[:\s]+(.+)$" (IGNORECASE) can match.
InlineStarts(line) ==
    {i \in 1..Len(line) :
        /\ i + 5 <= Len(line)
        /\ Lower(SubSeq(line, i, i + 3)) = <<"n", "a", "m", "e">>
        /\ line[i + 4] \in NAME_SEPS
        /\ \A k \in (i + 5)..Len(line) : line[k] # "\n"}

\* re.search(...).group(1) for the leftmost match: the separator run is
\* greedy and gives back its last character only when it reaches the end.
InlineGroup(line) ==
    LET i == CHOOSE k \in InlineStarts(line) : \A j \in InlineStarts(line) : k <= j
        e == CHOOSE k \in (i + 4)..Len(line) :
                /\ AllIn(line, i + 4, k, NAME_SEPS)
                /\ (k = Len(line) \/ line[k + 1] \notin NAME_SEPS)
    IN  IF e = Len(line) THEN <<line[Len(line)]>>
        ELSE SubSeq(line, e + 1, Len(line))

RECURSIVE InlineScan(_, _, _)
\* Second loop over lines: the first line with an inline match.
InlineScan(lines, i, cur) ==
    IF i > Len(lines) THEN cur
    ELSE IF InlineStarts(lines[i]) # {}
         THEN Strip(InlineGroup(lines[i]))
         ELSE InlineScan(lines, i + 1, cur)

\* Variant: the inline form is tried first, the labelled form second.
ResolveName_M(start, lines) ==
    LET inline == InlineScan(lines, 1, start)
    IN  IF ~Truthy(inline) THEN LabelScan(lines, 1, inline) ELSE inline

\* The name extraction block, from the initial value of name.
ResolveName(start, lines) ==
    LET labelled == LabelScan(lines, 1, start)
    IN  IF ~Truthy(labelled) THEN InlineScan(lines, 1, labelled) ELSE labelled

----------------------------------------------------------------------------
(* Header row.                                                             *)

\* " ".join(str(cell or "") for cell in row).lower()
RowText(row) ==
    Lower(Join([i \in 1..Len(row) |-> IF Truthy(row[i]) THEN row[i] ELSE <<>>],
               <<" ">>))

IsHeaderRow(row) ==
    /\ Contains(RowText(row), HDR_DATE)
    /\ Contains(RowText(row), HDR_DAY)
    /\ Contains(RowText(row), HDR_TOTAL)

RECURSIVE HeaderScan(_, _)
\* header_row_index: 0-based index of the first header row, from i on; -1
\* when the loop ends without a break.
HeaderScan(tbl, i) ==
    IF i >= Len(tbl) THEN -1
    ELSE IF IsHeaderRow(tbl[i + 1]) THEN i
    ELSE HeaderScan(tbl, i + 1)

\* Variant: header_row_index starts at 0 instead of -1.
header_row_index_M(tbl) ==
    IF HeaderScan(tbl, 0) = -1 THEN 0 ELSE HeaderScan(tbl, 0)

header_row_index(tbl) == HeaderScan(tbl, 0)

----------------------------------------------------------------------------
(* Data rows.                                                              *)

\* cleaned_row = [(cell or "").strip() for cell in row]
cleaned_row(row) ==
    [i \in 1..Len(row) |-> Strip(IF Truthy(row[i]) THEN row[i] ELSE <<>>)]

\* not any(cleaned_row) or len(cleaned_row) < 2
IsBlankOrShort(cr) == (\A i \in 1..Len(cr) : cr[i] = <<>>) \/ Len(cr) < 2

\* "prepared by" in " ".join(cleaned_row).lower()
IsFooter(cr) == Contains(Lower(Join(cr, <<" ">>)), FOOTER_MARK)

\* Variant: the footer row is skipped (continue) instead of ending the loop.
RowOutcome_M(cr) ==
    IF IsBlankOrShort(cr) THEN "continue"
    ELSE IF IsFooter(cr) THEN "continue"
    ELSE IF ~DATE_RE(cr[1]) THEN "continue"
    ELSE "append"

\* The chain of tests applied to one data row, in source order.
RowOutcome(cr) ==
    IF IsBlankOrShort(cr) THEN "continue"
    ELSE IF IsFooter(cr) THEN "break"
    ELSE IF ~DATE_RE(cr[1]) THEN "continue"
    ELSE "append"

\* re.search(r"annual\s*leave", " ".join(cleaned_row), re.IGNORECASE)
IsLeave(cr) == LEAVE_RE(Join(cr, <<" ">>))

RECURSIVE TokensFrom(_, _)
\* tokens: cell.split() of every non-empty cell from index i (1-based) on.
TokensFrom(cr, i) ==
    IF i > Len(cr) THEN <<>>
    ELSE (IF cr[i] # <<>> THEN Split(cr[i]) ELSE <<>>) \o TokensFrom(cr, i + 1)

\* for cell in cleaned_row[2:]
Tokens(cr) == TokensFrom(cr, 3)

RECURSIVE TimeIndices(_, _)
\* time_indices (1-based positions here), in increasing order.
TimeIndices(tokens, i) ==
    IF i > Len(tokens) THEN <<>>
    ELSE (IF TIME_RE(tokens[i]) THEN <<i>> ELSE <<>>) \o TimeIndices(tokens, i + 1)

\* tok.strip().strip(",.")
tok_clean(tok) == StripChars(Strip(tok), {",", "."})

RECURSIVE Collect(_, _, _)
\* The numeric scan from position i on: up to two cleaned, normalised
\* number tokens.
Collect(tokens, i, acc) ==
    IF i > Len(tokens) \/ Len(acc) >= 2 THEN acc
    ELSE IF NUMBER_RE(tok_clean(tokens[i]))
         THEN Collect(tokens, i + 1, Append(acc, ReplaceComma(tok_clean(tokens[i]))))
         ELSE Collect(tokens, i + 1, acc)

\* Variant: the first time token is always taken.
out_idx_M(ti) == ti[1]

\* out_idx (1-based), for a non-empty time_indices.
out_idx(ti) == IF Len(ti) >= 2 THEN ti[2] ELSE ti[1]

\* numeric_after, or numeric_tokens in the fallback branch.
Numeric(tokens) ==
    LET ti == TimeIndices(tokens, 1)
    IN  IF Len(ti) >= 1 THEN Collect(tokens, out_idx(ti) + 1, <<>>)
        ELSE Collect(tokens, 1, <<>>)

\* parts and " | ".join(parts)
ComposeHours(nums) ==
    LET reg_hours == IF Len(nums) >= 1 THEN nums[1] ELSE None
        ot_hours == IF Len(nums) >= 2 THEN nums[2] ELSE None
        parts == (IF Truthy(reg_hours) THEN <<reg_hours \o TAG_REGULAR>> ELSE <<>>)
                 \o (IF Truthy(ot_hours) THEN <<ot_hours \o TAG_OT>> ELSE <<>>)
    IN  Join(parts, PARTS_SEP)

\* Variant: the leave test comes after the token scan and applies only when
\* the scan found no figure.
hours_str_M(cr) ==
    IF Numeric(Tokens(cr)) # <<>> THEN ComposeHours(Numeric(Tokens(cr)))
    ELSE IF IsLeave(cr) THEN ANNUAL_LEAVE ELSE <<>>

\* hours_str of a row that passed the date test.
hours_str(cr) ==
    IF IsLeave(cr) THEN ANNUAL_LEAVE ELSE ComposeHours(Numeric(Tokens(cr)))

\* The dict appended to records.
Record(nm, cr) ==
    [name |-> IF Truthy(nm) THEN nm ELSE <<>>,
     date |-> cr[1],
     day |-> IF Len(cr) > 1 THEN cr[2] ELSE <<>>,
     hours |-> hours_str(cr)]

\* Variant: the record is inserted at the front.
AppendRecord_M(recs, rec) == <<rec>> \o recs

\* records.append(rec)
AppendRecord(recs, rec) == Append(recs, rec)

----------------------------------------------------------------------------
(* Input documents: what the layout engine may hand to extract_records.    *)

sDate == <<"1", "6", " ", "J", "u", "l", " ", "2", "5">>

sDay == <<"W", "e", "d">>

HeaderRow == <<<<"D", "a", "t", "e">>, <<"D", "a", "y">>,
               <<"T", "o", "t", "a", "l", " ", "H", "o", "u", "r">>>>

DataRow == <<sDate, sDay, <<"8">>>>

FooterRow == <<None, <<"P", "r", "e", "p", "a", "r", "e", "d", " ", "B", "y", ":", " ", "H", "R">>>>

ShortFooterRow == <<<<"P", "r", "e", "p", "a", "r", "e", "d", " ", "b", "y">>>>

DocRows == {HeaderRow, DataRow, FooterRow, ShortFooterRow}

sJane == <<"J", "a", "n", "e", " ", "D", "o", "e">>

TitledNamed == WEEKLY_HEADER \o <<"\n">> \o NAME_LABEL \o <<"\n">> \o sJane

TitledUnnamed == <<"\n">> \o WEEKLY_HEADER \o <<"\n">>

Untitled == <<"I", "n", "v", "o", "i", "c", "e">> \o <<"\n">> \o NAME_LABEL \o <<"\n">> \o sJane

DocTexts == {TitledNamed, TitledUnnamed, Untitled}

\* All sequences over S of length 0..n.
SeqsUpTo(S, n) == UNION {[1..k -> S] : k \in 0..n}

\* Raw text lines a page may show under its title.
LineSet ==
    { NAME_LABEL,
      <<" ", "N", "A", "M", "E", "\t">>,
      <<"A", "l">>,
      sJane,
      <<"B", "o", "b", " ", "L", "e", "e">>,
      <<"N", "a", "m", "e", ":", " ", "J", "o", "h", "n", " ", "S", "m", "i", "t", "h">>,
      <<>> }

\* Page texts: the title line followed by up to MaxLines lines.
NameTexts ==
    {WEEKLY_HEADER \o <<"\n">> \o Join(ls, <<"\n">>) : ls \in SeqsUpTo(LineSet, MaxLines)}

\* Cells after the date and day cells.
TokenCells ==
    { <<"0", "8", ":", "0", "0">>,
      <<"1", "6", ".", "3", "0">>,
      <<"8">>,
      <<"7", ",", "5", ".">>,
      <<"O", "T">>,
      <<" ", "0", "8", ":", "0", "0", "\n", "1", "7", ":", "0", "0">> }

TokenRows == {<<sDate, sDay>> \o cs : cs \in SeqsUpTo(TokenCells, MaxCells)}

LeaveCells ==
    { <<"a", "n", "n", "u", "a", "l", " ", "l", "e", "a", "v", "e">>,
      <<"A", "N", "N", "U", "A", "L", " ", "L", "E", "A", "V", "E", " ">>,
      <<"a", "n", "n", "u", "a", "l">> }

LeaveRows ==
    {<<sDate, sDay, lv>> \o cs :
        lv \in LeaveCells,
        cs \in SeqsUpTo({<<"0", "8", ":", "0", "0">>, <<"8">>, <<"7", ",", "5">>,
                         <<"l", "e", "a", "v", "e">>,
                         <<"P", "r", "e", "p", "a", "r", "e", "d", " ", "b", "y">>},
                        MaxCells - 1)}

\* First cells around the date shape: digits, gap, letters, gap, digits.
DateStrings ==
    LET digs == <<"1", "6", "2", "0", "5">>
        lets == <<"J", "u", "l", "y">>
        gaps == {<<" ">>, <<" ", "\t">>, <<"-">>}
    IN  {pad \o SubSeq(digs, 1, a) \o g1 \o SubSeq(lets, 1, b) \o g2 \o SubSeq(digs, 1, c) :
            pad \in {<<>>, <<" ">>}, a \in 1..3, g1 \in gaps, b \in 2..4,
            g2 \in gaps, c \in 1..5}

DateRows == {<<d, sDay, <<"8">>>> : d \in DateStrings}

\* The rows of the worked examples, and rows around the first tests.
ExampleRows ==
    { <<sDate, sDay, <<"0", "8", ":", "0", "0">>, <<"1", "6", ":", "3", "0">>, <<"8">>, <<"0", ".", "5">>>>,
      <<sDate, sDay, <<"0", "8", ":", "0", "0">>, <<"8">>>>,
      <<sDate, sDay, <<"8">>, <<"0", ".", "5">>>>,
      <<sDate, sDay, <<"0", "8", ":", "0", "0">>, <<"1", "6", ":", "3", "0">>, <<"1", "7", ".", "4", "5">>, <<"8">>>>,
      <<sDate, sDay, <<"0", "8", ".", "0", "0">>, <<"1", "6", ".", "3", "0">>, <<"1", "7", ":", "4", "5">>, <<"8">>>>,
      <<sDate, sDay, None, <<"8", ",">>, <<>>, <<"0", ",", "5">>>>,
      <<<<"1", "6", "J", "u", "l", "2", "5">>, sDay, <<"8">>>>,
      <<<<"J", "u", "l", " ", "1", "6", " ", "2", "5">>, sDay, <<"8">>>>,
      <<sDate>>,
      <<sDate, None>>,
      <<None, <<" ">>, <<>>>>,
      <<<<"W", "e", "e", "k", " ", "3">>, None>>,
      <<<<"P", "r", "e", "p", "a", "r", "e", "d">>, <<"b", "y">>>>,
      <<sDate, sDay, <<"8">>, <<"P", "R", "E", "P", "A", "R", "E", "D", " ", "B", "Y">>>>,
      FooterRow, ShortFooterRow, HeaderRow,
      <<<<"U", "p", "d", "a", "t", "e", "d">>, None, <<"t", "o", "d", "a", "y">>,
        <<"T", "O", "T", "A", "L", " ", "H", "O", "U", "R", "S">>>> }

FocusRows == TokenRows \cup LeaveRows \cup DateRows \cup ExampleRows

Min(a, b) == IF a <= b THEN a ELSE b

\* Tables with at most n rows drawn from rows.
Tables(rows, n) == SeqsUpTo(rows, n)

----------------------------------------------------------------------------
(* State machine of extract_records.                                       *)

Start ==
    /\ pc = "pages"
    /\ rowsLeft = inputs.rowsTotal
    /\ pageNo = 0
    /\ tableNo = 0
    /\ rowNo = 0
    /\ text = <<>>
    /\ name = None
    /\ table = <<>>
    /\ hdr = -1
    /\ records = <<>>
    /\ origin = <<>>

\* Whole documents of short tables over the document rows and texts.
Init ==
    /\ inputs = [rows |-> DocRows, texts |-> DocTexts, pages |-> MaxPages,
                 tables |-> MaxTables, rowsTotal |-> MaxRows, tableLen |-> 3]
    /\ Start

\* One-page documents with tables of any length over the document rows.
InitTable ==
    /\ inputs = [rows |-> DocRows, texts |-> {TitledNamed, Untitled}, pages |-> 1,
                 tables |-> 2, rowsTotal |-> MaxRows, tableLen |-> MaxRows]
    /\ Start

\* One-table documents around every row of FocusRows.
InitRow ==
    /\ \E r \in FocusRows :
          inputs = [rows |-> {HeaderRow, r}, texts |-> {TitledNamed, Untitled},
                    pages |-> 1, tables |-> 1, rowsTotal |-> 2, tableLen |-> 2]
    /\ Start

\* One-table documents around every text of NameTexts.
InitName ==
    /\ \E t \in NameTexts :
          inputs = [rows |-> DocRows, texts |-> {t, Untitled},
                    pages |-> 1, tables |-> 1, rowsTotal |-> 2, tableLen |-> 2]
    /\ Start

\* if WEEKLY_HEADER not in text: continue
PageSkip ==
    /\ pc = "pages"
    /\ pageNo < inputs.pages
    /\ \E t \in inputs.texts :
          /\ ~Contains(t, WEEKLY_HEADER)
          /\ text' = t
    /\ pageNo' = pageNo + 1
    /\ UNCHANGED <<pc, inputs, rowsLeft, tableNo, rowNo, name, table, hdr, records, origin>>

\* A page with the title: the name is extracted and the tables loop starts.
PageBegin ==
    /\ pc = "pages"
    /\ pageNo < inputs.pages
    /\ \E t \in inputs.texts :
          /\ Contains(t, WEEKLY_HEADER)
          /\ text' = t
          /\ name' = ResolveName(NameAtPageStart(name), Lines(t))
    /\ pageNo' = pageNo + 1
    /\ tableNo' = 0
    /\ pc' = "tables"
    /\ UNCHANGED <<inputs, rowsLeft, rowNo, table, hdr, records, origin>>

\* pdf.pages is exhausted: return records.
Return ==
    /\ pc = "pages"
    /\ pc' = "done"
    /\ UNCHANGED <<inputs, rowsLeft, pageNo, tableNo, rowNo, text, name, table, hdr, records, origin>>

\* if header_row_index == -1: continue
TableNoHeader ==
    /\ pc = "tables"
    /\ tableNo < inputs.tables
    /\ \E tbl \in Tables(inputs.rows, Min(rowsLeft, inputs.tableLen)) :
          /\ header_row_index(tbl) = -1
          /\ table' = tbl
          /\ rowsLeft' = rowsLeft - Len(tbl)
    /\ hdr' = -1
    /\ tableNo' = tableNo + 1
    /\ UNCHANGED <<pc, inputs, pageNo, rowNo, text, name, records, origin>>

\* A table with a header row: the row loop starts at start_row.
TableHeader ==
    /\ pc = "tables"
    /\ tableNo < inputs.tables
    /\ \E tbl \in Tables(inputs.rows, Min(rowsLeft, inputs.tableLen)) :
          /\ header_row_index(tbl) # -1
          /\ table' = tbl
          /\ rowsLeft' = rowsLeft - Len(tbl)
          /\ hdr' = header_row_index(tbl)
          /\ rowNo' = header_row_index(tbl) + 1
    /\ tableNo' = tableNo + 1
    /\ pc' = "rows"
    /\ UNCHANGED <<inputs, pageNo, text, name, records, origin>>

\* tables is exhausted: next page. The variables of the page body (text,
\* table, header_row_index, the loop positions) are dead from here on and
\* are cleared; name keeps its value until line 35 of the next iteration.
PageEnd ==
    /\ pc = "tables"
    /\ pc' = "pages"
    /\ text' = <<>>
    /\ table' = <<>>
    /\ hdr' = -1
    /\ tableNo' = 0
    /\ rowNo' = 0
    /\ UNCHANGED <<inputs, rowsLeft, pageNo, name, records, origin>>

\* The row the loop over table[start_row:] is at.
CurrentRow == cleaned_row(table[rowNo + 1])

\* A blank or short row: continue.
RowSkip ==
    /\ pc = "rows"
    /\ rowNo < Len(table)
    /\ RowOutcome(CurrentRow) = "continue"
    /\ IsBlankOrShort(CurrentRow)
    /\ rowNo' = rowNo + 1
    /\ UNCHANGED <<pc, inputs, rowsLeft, pageNo, tableNo, text, name, table, hdr, records, origin>>

\* The footer: break out of the row loop.
RowFooter ==
    /\ pc = "rows"
    /\ rowNo < Len(table)
    /\ RowOutcome(CurrentRow) = "break"
    /\ pc' = "tables"
    /\ UNCHANGED <<inputs, rowsLeft, pageNo, tableNo, rowNo, text, name, table, hdr, records, origin>>

\* The first cell is not a date: continue.
RowNotDate ==
    /\ pc = "rows"
    /\ rowNo < Len(table)
    /\ RowOutcome(CurrentRow) = "continue"
    /\ ~IsBlankOrShort(CurrentRow)
    /\ rowNo' = rowNo + 1
    /\ UNCHANGED <<pc, inputs, rowsLeft, pageNo, tableNo, text, name, table, hdr, records, origin>>

\* A dated row: its record is appended.
RowEmit ==
    /\ pc = "rows"
    /\ rowNo < Len(table)
    /\ RowOutcome(CurrentRow) = "append"
    /\ records' = AppendRecord(records, Record(name, CurrentRow))
    /\ origin' = Append(origin, <<pageNo, tableNo, rowNo>>)
    /\ rowNo' = rowNo + 1
    /\ UNCHANGED <<pc, inputs, rowsLeft, pageNo, tableNo, text, name, table, hdr>>

\* table[start_row:] is exhausted: next table.
TableEnd ==
    /\ pc = "rows"
    /\ rowNo >= Len(table)
    /\ pc' = "tables"
    /\ UNCHANGED <<inputs, rowsLeft, pageNo, tableNo, rowNo, text, name, table, hdr, records, origin>>

Next ==
    \/ PageSkip
    \/ PageBegin
    \/ Return
    \/ TableNoHeader
    \/ TableHeader
    \/ PageEnd
    \/ RowSkip
    \/ RowFooter
    \/ RowNotDate
    \/ RowEmit
    \/ TableEnd

Spec == Init /\ [][Next]_vars

SpecTable == InitTable /\ [][Next]_vars

SpecRow == InitRow /\ [][Next]_vars

SpecName == InitName /\ [][Next]_vars

----------------------------------------------------------------------------
(* Vocabulary of the properties.                                           *)

\* Positions in records of the records of the table being scanned.
HereRecords ==
    {i \in 1..Len(records) :
        pc \in {"tables", "rows"} /\ origin[i][1] = pageNo /\ origin[i][2] = tableNo}

\* Positions in records of the records of the page being processed.
PageRecords ==
    {i \in 1..Len(records) : pc \in {"tables", "rows"} /\ origin[i][1] = pageNo}

\* The trimmed cells of the row the i-th record was made from.
SourceRow(i) == cleaned_row(table[origin[i][3] + 1])

\* 0-based indexes of the rows of the scanned table that qualify as header.
HeaderRows ==
    {h \in 0..(Len(table) - 1) :
        LET joined == Lower(Join([c \in 1..Len(table[h + 1]) |->
                                     IF table[h + 1][c] = None THEN <<>>
                                     ELSE table[h + 1][c]], <<" ">>))
        IN  /\ Contains(joined, HDR_DATE)
            /\ Contains(joined, HDR_DAY)
            /\ Contains(joined, HDR_TOTAL)}

\* Some cell of the row contains the footer marker, in any letter case.
HasFooterMarker(row) ==
    \E c \in 1..Len(row) : row[c] # None /\ Contains(Lower(row[c]), FOOTER_MARK)

\* 0-based indexes of the rows after the header that hold the footer marker
\* and have at least minCells cells.
FooterRows(minCells) ==
    {k \in 0..(Len(table) - 1) :
        /\ \E h \in HeaderRows : h < k
        /\ HasFooterMarker(table[k + 1])
        /\ Len(table[k + 1]) >= minCells}

\* No record of the scanned table comes from a footer row or from a row
\* after one, and the row loop never moves past a footer row.
StopsAtFooter(minCells) ==
    /\ \A i \in HereRecords : \A k \in FooterRows(minCells) : origin[i][3] < k
    /\ pc = "rows" => \A k \in FooterRows(minCells) : rowNo <= k

\* C1 as stated: a footer row of any number of cells ends the scan of its
\* table; no record comes from it or from a later row of the table.
C1_FooterAnyWidth == StopsAtFooter(1)

\* C1, amended: a row after the header with at least two cells that holds
\* the footer marker ends the scan of its table for good; no record comes
\* from it or from any later row of the table. (A one-cell row is skipped
\* as too short before the footer test.)
C1_FooterStopsTable == StopsAtFooter(2)

\* The scan broke at a footer row of two cells although a dated row, which
\* would have given a record, follows it; a record came from before it.
C1_Witness ==
    /\ pc = "tables"
    /\ HereRecords # {}
    /\ rowNo \in FooterRows(2)
    /\ \E j \in (rowNo + 1)..(Len(table) - 1) :
          RowOutcome(cleaned_row(table[j + 1])) = "append"

\* The date shape with the given gaps and year lengths, read off the
\* whitespace-separated pieces of s.
DateShape(s, oneSpace, yearLens) ==
    LET ps == Split(s)
    IN  /\ Len(ps) = 3
        /\ Len(ps[1]) \in 1..2 /\ AllIn(ps[1], 1, Len(ps[1]), DIGITS)
        /\ Len(ps[2]) = 3 /\ AllIn(ps[2], 1, 3, LETTERS)
        /\ Len(ps[3]) \in yearLens /\ AllIn(ps[3], 1, Len(ps[3]), DIGITS)
        /\ IF oneSpace
           THEN s = ps[1] \o <<" ">> \o ps[2] \o <<" ">> \o ps[3]
           ELSE Len(s) >= 1 /\ s[1] \notin WS /\ s[Len(s)] \notin WS

\* Every record's date has the shape, and is the trimmed first cell of its row.
DatesShaped(oneSpace, yearLens) ==
    /\ \A i \in 1..Len(records) : DateShape(records[i].date, oneSpace, yearLens)
    /\ \A i \in HereRecords :
          /\ table[origin[i][3] + 1][1] # None
          /\ records[i].date = Strip(table[origin[i][3] + 1][1])

\* C2 as stated: records come only from rows whose trimmed first cell is
\* 1-2 digits, one space, three letters, one space, two or four digits.
C2_DateOneSpaceTwoOrFour == DatesShaped(TRUE, {2, 4})

\* C2, amended: records come only from rows whose trimmed first cell is 1-2
\* digits, one or more whitespace characters, exactly three letters, one or
\* more whitespace characters, then two to four digits; the date of every
\* record has that shape.
C2_DateShape == DatesShaped(FALSE, 2..4)

\* A record whose date has a three-digit year and a two-character gap.
C2_Witness ==
    \E i \in HereRecords :
        /\ Len(Split(records[i].date)[3]) = 3
        /\ Len(records[i].date) > Len(Join(Split(records[i].date), <<" ">>))

\* C3: every record of a page carries the name resolved from that page's
\* own text, one value for all its tables, and the empty string (never
\* None) when none is resolved, whatever earlier pages resolved.
C3_NamePerPage ==
    /\ \A i \in 1..Len(records) : records[i].name # None
    /\ \A i \in PageRecords :
          LET resolved == ResolveName(None, Lines(text))
          IN  records[i].name = IF resolved = None THEN <<>> ELSE resolved
    /\ \A i, j \in 1..Len(records) :
          origin[i][1] = origin[j][1] => records[i].name = records[j].name

\* A record of an earlier page has a name and a record of this page, whose
\* text resolves none, has the empty string.
C3_Witness ==
    \E i, j \in 1..Len(records) :
        /\ origin[i][1] < origin[j][1]
        /\ origin[j][1] = pageNo
        /\ records[i].name # <<>>
        /\ records[j].name = <<>>
        /\ ResolveName(None, Lines(text)) = None

\* Positions k of the page's non-empty trimmed lines such that line k is
\* the label and line k+1 is longer than 2.
LabelledAt ==
    {k \in 1..(Len(Lines(text)) - 1) :
        /\ Lower(Lines(text)[k]) = <<"n", "a", "m", "e">>
        /\ Len(Lines(text)[k + 1]) > 2}

\* C4 as stated: for any label line whose next non-empty line L is longer
\* than 2, the name of every record of the page is L.
C4_AnyLabelLine ==
    \A i \in PageRecords : \A k \in LabelledAt :
        records[i].name = Lines(text)[k + 1]

\* C4, amended: when the text has label lines whose next non-empty line is
\* longer than 2, the name of every record of the page is the line after
\* the first of them, also when an inline "Name: X" occurs elsewhere.
C4_FirstLabelLine ==
    \A i \in PageRecords :
        LabelledAt # {} =>
            \E k \in LabelledAt :
                /\ \A m \in LabelledAt : k <= m
                /\ records[i].name = Lines(text)[k + 1]

\* A record of a page whose text has an inline "Name: X" line before the
\* label line, or two label lines with different followers.
C4_Witness ==
    /\ PageRecords # {}
    /\ \/ \E k \in LabelledAt : \E m \in 1..(k - 1) : InlineStarts(Lines(text)[m]) # {}
       \/ \E k, m \in LabelledAt : Lines(text)[k + 1] # Lines(text)[m + 1]

C6_AnnualLeave ==
    \A i \in HereRecords :
        (/\ Len(SourceRow(i)) >= 3
         /\ Lower(SourceRow(i)[3]) = <<"a", "n", "n", "u", "a", "l", " ", "l", "e", "a", "v", "e">>)
        => records[i].hours = ANNUAL_LEAVE

\* A leave record from a row whose trailing cells hold a time and a number.
C6_Witness ==
    \E i \in HereRecords :
        /\ records[i].hours = ANNUAL_LEAVE
        /\ Len(SourceRow(i)) >= 5
        /\ Lower(SourceRow(i)[3]) = <<"a", "n", "n", "u", "a", "l", " ", "l", "e", "a", "v", "e">>
        /\ \E c, d \in 4..Len(SourceRow(i)) : TIME_RE(SourceRow(i)[c]) /\ NUMBER_RE(SourceRow(i)[d])

\* Tokens of a trimmed row: the whitespace-split cells from index 2 on.
ClaimTokens(cr) == Split(Join(SubSeq(cr, 3, Len(cr)), <<" ">>))

\* Positions of the time tokens.
TimeAt(toks) == {k \in 1..Len(toks) : TIME_RE(toks[k])}

\* The OUT position: the second time token, or the only one.
OutAt(toks) ==
    IF Cardinality(TimeAt(toks)) >= 2
    THEN CHOOSE k \in TimeAt(toks) : Cardinality({m \in TimeAt(toks) : m < k}) = 1
    ELSE CHOOSE k \in TimeAt(toks) : TRUE

\* Positions after from of the tokens that pass the number test.
NumbersAfter(toks, from) ==
    {k \in (from + 1)..Len(toks) : NUMBER_RE(StripChars(toks[k], {",", "."}))}

\* The n-th smallest element of a set of positions.
Nth(S, n) == CHOOSE k \in S : Cardinality({m \in S : m < k}) = n - 1

\* A token as a figure: commas and periods around it dropped, a comma
\* inside it turned into a period.
Figure(tok) == ReplaceComma(StripChars(tok, {",", "."}))

\* The hours text for the number positions N of toks.
HoursText(toks, N) ==
    IF N = {} THEN <<>>
    ELSE IF Cardinality(N) = 1 THEN Figure(toks[Nth(N, 1)]) \o TAG_REGULAR
    ELSE Figure(toks[Nth(N, 1)]) \o TAG_REGULAR \o PARTS_SEP
         \o Figure(toks[Nth(N, 2)]) \o TAG_OT

\* C7: for a non-leave row with a time token, regular and overtime hours
\* are the first and second number tokens strictly after the OUT position
\* (second time token, else the only one); nothing at or before it counts.
C7_HoursAfterOut ==
    \A i \in HereRecords :
        LET toks == ClaimTokens(SourceRow(i))
        IN  (~IsLeave(SourceRow(i)) /\ TimeAt(toks) # {})
            => records[i].hours = HoursText(toks, NumbersAfter(toks, OutAt(toks)))

\* The worked example: tokens 08:00, 16:30, 8, 0.5 gave
\* "8 (Regular) | 0.5 (OT)".
C7_Witness ==
    \E i \in HereRecords :
        /\ ClaimTokens(SourceRow(i)) =
              << <<"0", "8", ":", "0", "0">>, <<"1", "6", ":", "3", "0">>, <<"8">>, <<"0", ".", "5">> >>
        /\ records[i].hours =
              <<"8">> \o TAG_REGULAR \o PARTS_SEP \o <<"0", ".", "5">> \o TAG_OT

\* Digits with an optional period-separated fraction.
IsFigure(x) ==
    \E a \in 1..Len(x) :
        /\ AllIn(x, 1, a, DIGITS)
        /\ \/ a = Len(x)
           \/ /\ a + 2 <= Len(x)
              /\ x[a + 1] = "."
              /\ AllIn(x, a + 2, Len(x), DIGITS)

\* C8: hours is "Annual Leave", "", "<r> (Regular)" or
\* "<r> (Regular) | <o> (OT)" with r and o digit strings with an optional
\* period-separated fraction.
C8_HoursFormat ==
    \A i \in 1..Len(records) :
        LET h == records[i].hours
        IN  \/ h = ANNUAL_LEAVE
            \/ h = <<>>
            \/ \E a \in 1..Len(h) :
                  /\ IsFigure(SubSeq(h, 1, a))
                  /\ \/ SubSeq(h, a + 1, Len(h)) = TAG_REGULAR
                     \/ \E b \in (a + 1)..Len(h) :
                           /\ SubSeq(h, a + 1, b) = TAG_REGULAR \o PARTS_SEP
                           /\ \E c \in (b + 1)..Len(h) :
                                 /\ IsFigure(SubSeq(h, b + 1, c))
                                 /\ SubSeq(h, c + 1, Len(h)) = TAG_OT

\* Both figures present, and a token with a comma gave a figure.
C8_Witness ==
    \E i \in HereRecords :
        /\ Contains(records[i].hours, TAG_OT)
        /\ Contains(records[i].hours, <<"7", ".", "5">>)
        /\ \E c \in 3..Len(SourceRow(i)) : SourceRow(i)[c] = <<"7", ",", "5", ".">>

\* Positions of the tokens behind the hours of the i-th record.
HoursSources(i) ==
    LET toks == ClaimTokens(SourceRow(i))
        from == IF TimeAt(toks) # {} THEN OutAt(toks) ELSE 0
        N == NumbersAfter(toks, from)
    IN  IF IsLeave(SourceRow(i)) THEN {}
        ELSE {k \in N : Cardinality({m \in N : m < k}) < 2}

\* Tokens are never both of the kinds whose separators are given: no token
\* of a row with these separators passes both tests, and no token behind
\* reported hours is a time token with one of them.
TimeNumberDisjoint(seps) ==
    \A i \in HereRecords :
        LET toks == ClaimTokens(SourceRow(i))
            both == {k \in 1..Len(toks) :
                        /\ TIME_RE(toks[k])
                        /\ NUMBER_RE(StripChars(toks[k], {",", "."}))}
        IN  /\ \A k \in both : \A c \in 1..Len(toks[k]) : toks[k][c] \notin seps
            /\ \A k \in HoursSources(i) :
                  TIME_RE(toks[k]) => \A c \in 1..Len(toks[k]) : toks[k][c] \notin seps

Before(a, b) ==
    \/ a[1] < b[1]
    \/ a[1] = b[1] /\ a[2] < b[2]
    \/ a[1] = b[1] /\ a[2] = b[2] /\ a[3] < b[3]

InDocumentOrder ==
    /\ Len(origin) = Len(records)
    /\ \A i, j \in 1..Len(origin) : i < j => Before(origin[i], origin[j])

\* C9: every step leaves records unchanged or appends one record at the
\* end; records stay in page, then table, then row order.
C9_AppendOnly ==
    [][/\ Len(records') \in {Len(records), Len(records) + 1}
       /\ SubSeq(records', 1, Len(records)) = records
       /\ InDocumentOrder']_vars

\* Records of two pages, the later one with another name, in page order.
C9_Witness ==
    /\ Len(records) >= 2
    /\ \E i \in 1..(Len(records) - 1) :
          /\ origin[i][1] < origin[i + 1][1]
          /\ records[i] # records[i + 1]

====
